---- MODULE Spec2Model ----
(***************************************************************************)
(* TheHaydenSphere backend v3 (src/node.js): the notes metadata index, the  *)
(* versioned encrypted blobs under data/blobs/<id>/versions and the PIN     *)
(* kept in data/meta.json, as a state machine with one action per route.    *)
(*                                                                          *)
(* JavaScript values are records [type, val]; a Buffer or base64 string     *)
(* produced by the server keeps the structure it was computed from, so      *)
(* that gzip, AES-GCM and SHA-256 are injective constructors and not the    *)
(* identity.  Date.now() is the variable clock, which may stand still       *)
(* between two requests (two requests in one millisecond).  Real            *)
(* timestamps have 13 decimal digits; the model's clock starts at a         *)
(* one-digit value and crosses into two digits, the scaled-down image of a  *)
(* clock that crosses a power of ten.  A note entry keeps its id and title;  *)
(* type, tags, summary and the two timestamps are stored and never read.    *)
(*                                                                          *)
(* The tasks routes keep data/tasks.json.  The MCIF scheduler page          *)
(* (src/unnamed/part_000) is the second part: its STATE object (State       *)
(* here), the undo stack, the edit dialog, the weekly rollover and the      *)
(* ReadingManager with its timers, one action per handler or callback.      *)
(***************************************************************************)
EXTENDS Integers, Sequences, FiniteSets, TLC

\* ---------------------------------------------------------------- bounds
StartClock == 9
MaxClock == 10
MaxIndex == 2
MaxVersions == 2
MaxReqs == 2
MaxOrder == 2
\* the scheduler page: a week of WeekDays days (7), the weeks 0..MaxWeek,
\* uid() called at most MaxUid times, at most MaxTasks entries in the task
\* lists, an undo stack of UNDO_LIMIT snapshots (40) and a list of
\* MAX_ARCHIVE_ENTRIES archived weeks (128)
WeekDays == 2
MaxWeek == 1
MaxUid == 2
MaxTasks == 2
UNDO_LIMIT == 1
MAX_ARCHIVE_ENTRIES == 2
\* a reading session records at most MaxEvents events
MaxEvents == 3

\* ------------------------------------------------------------ JS values
Undefined == [type |-> "undefined", val |-> ""]
Str(s) == [type |-> "string", val |-> s]
Num(s) == [type |-> "number", val |-> s]
EmptyObject == [type |-> "object", val |-> "{}"]
Truthy(v) == /\ v.type # "undefined"
             /\ ~(v.type = "string" /\ v.val = "")
             /\ ~(v.type = "number" /\ v.val = "0")
Or(a, b) == IF Truthy(a) THEN a ELSE b

NoteIds == {"n1", "n2"}
Auths == {"none", "malformed", "invalid", "valid"}
IdVals == {Undefined} \cup {Str(n) : n \in NoteIds}
TitleVals == {Undefined, Str("t1")}
PlaintextVals == {Undefined, Str("hello"), Num("42")}
CiphertextVals == {Undefined, Str("c1")}
IvVals == {Undefined, Str("iv1")}
MetaVals == {Undefined}
ModeVals == {Undefined, Str("client-only"), Str("server-assisted"), Str("hybrid")}
RandomIvs == {"r1", "r2"}
NoBlob == [type |-> "undefined", val |-> "blob"]
BlobVals == {NoBlob} \cup
            [plaintext : PlaintextVals, ciphertext : CiphertextVals,
             iv : IvVals, meta : MetaVals]
Timestamps == StartClock..MaxClock
Reqs == 1..MaxReqs
\* a PIN is the sequence of its characters; <<>> is a missing or empty one
PinVals == {<<>>, <<1, 2, 3, 4, 5>>, <<1, 2, 3, 4, 5, 6>>, <<6, 5, 4, 3, 2, 1>>}
Salts == {"s1", "s2"}
Null == [type |-> "null", val |-> ""]

VARIABLES
  notesIndex,   \* data/notesIndex.json: sequence of note entries, newest first
  noteDirs,     \* ids n for which data/blobs/<n> exists
  verDirs,      \* ids n for which data/blobs/<n>/versions exists
  files,        \* files[n]: timestamp of the file name -> file content
  meta,         \* data/meta.json
  JWT_SECRET,   \* the process's signing secret
  clock,        \* Date.now()
  res,          \* the response to the latest request, with the route (op)
                \* and the URL parameters (params) of that request
  logged,       \* the entries the latest request appended to history.log
  pinReqs,      \* the setup-pin requests: where each handler stands
  vector,       \* a key and a payload, and what encrypt and decrypt made of them
  tasksFile,    \* data/tasks.json: the task lists of day A and day B
  State,        \* the scheduler page's STATE object
  today,        \* the day new Date() falls on
  nextUid,      \* how many ids uid() has handed out, plus one
  modal,        \* the open edit dialog with the task and day it was opened on
  localStorage, \* what storage.save has written
  checkedWeek,  \* the week the latest rollover check found the clock in
  running,          \* ReadingManager: a session is running
  session,          \* the id of the session object the manager holds, or null
  dingerIntervalId, \* null, or the handle of the latest dinger interval
  recallTimeoutId,  \* null, or the handle of the latest recall timeout
  recallSequence,   \* the stages still to come in triple mode
  intervals,        \* how many dinger intervals the browser has scheduled
  timeouts,         \* how many recall timeouts the browser has scheduled
  prompt,           \* the recall prompt on the screen, with its stage
  error             \* what the latest reading handler threw

store == <<notesIndex, noteDirs, verDirs, files>>
config == <<meta, JWT_SECRET, pinReqs>>
\* the state outside the notes and auth routes
helpers == <<vector>>
tasksStore == <<tasksFile>>
scheduler == <<State, today, nextUid, modal, localStorage, checkedWeek>>
reading == <<running, session, dingerIntervalId, recallTimeoutId, recallSequence,
             intervals, timeouts, prompt, error>>
browser == <<scheduler, reading>>
server == <<store, config, clock, res, logged, helpers, tasksStore>>
outside == <<helpers, tasksStore, browser>>
vars == <<notesIndex, noteDirs, verDirs, files, meta, JWT_SECRET, clock, res, logged, pinReqs,
          outside>>

\* -------------------------------------------------------------- helpers
NoBody == [none |-> TRUE]
Reply(op, status, text, body) ==
  [op |-> op, status |-> status, text |-> text, body |-> body, params |-> NoBody]
\* the reply to a request for /:id or /:id/versions/:file
To(params, reply) == [reply EXCEPT !.params = params]
LogEntry(action, payload) == [action |-> action, payload |-> payload]

sha256HexEmpty(input) == [sha256 |-> Str("")]
sha256Hex(input) == [sha256 |-> input]
gzipBufferSync(buf) == [gzip |-> buf]
gunzipBufferSync(buf) == buf.gzip
\* bytes that are no gzip stream: zlib.gunzipSync throws on them
Garbage == [garbage |-> "bytes"]
gunzipThrows(buf) == "gzip" \notin DOMAIN buf
BufferFrom(v) == [utf8 |-> v.val]
BufferFromThrows(v) == v.type # "string"
scryptSync(secret, salt) == [scrypt |-> secret, salt |-> salt]
aesGcmEncryptSkipped(keyBuf, plaintextBuffer, iv) ==
  [ciphertext |-> plaintextBuffer, iv |-> [base64 |-> iv]]
aesGcmEncrypt(keyBuf, plaintextBuffer, iv) ==
  [ciphertext |-> [alg |-> "aes-256-gcm", key |-> keyBuf, iv |-> iv,
                   enc |-> plaintextBuffer, tag |-> 16],
   iv |-> [base64 |-> iv]]
\* decipher.final() throws unless the last 16 bytes are the tag that this key
\* and iv give for the bytes before them
Thrown == [thrown |-> "Unsupported state or unable to authenticate data"]
aesGcmDecryptShortTag(keyBuf, ciphertextBase64, ivBase64) ==
  LET buffer == ciphertextBase64
      iv == ivBase64.base64
  IN IF buffer.key = keyBuf /\ buffer.iv = iv /\ buffer.tag = 12
     THEN buffer.enc
     ELSE Thrown
aesGcmDecrypt(keyBuf, ciphertextBase64, ivBase64) ==
  LET buffer == ciphertextBase64
      iv == ivBase64.base64
  IN IF buffer.key = keyBuf /\ buffer.iv = iv /\ buffer.tag = 16
     THEN buffer.enc
     ELSE Thrown
JSONstringify(obj) == [json |-> obj]
JSONparse(s) == s.json

\* requireAuth: the reply that ends the request, or NoBody when next() runs
requireAuthUnverified(auth) ==
  CASE auth = "none" -> Reply("requireAuth", 401, "no auth", NoBody)
    [] auth = "malformed" -> Reply("requireAuth", 400, "bad auth header", NoBody)
    [] OTHER -> NoBody
requireAuth(auth) ==
  CASE auth = "none" -> Reply("requireAuth", 401, "no auth", NoBody)
    [] auth = "malformed" -> Reply("requireAuth", 400, "bad auth header", NoBody)
    [] auth = "invalid" -> Reply("requireAuth", 401, "invalid token", NoBody)
    [] OTHER -> NoBody

Rejected(auth) ==
  /\ requireAuth(auth) # NoBody
  /\ res' = requireAuth(auth)
  /\ logged' = <<>>
  /\ UNCHANGED <<store, config, clock, outside>>

VersionCount == Cardinality({<<n, t>> \in NoteIds \X Timestamps : t \in DOMAIN files[n]})
UsedIds == {notesIndex[i].id : i \in 1..Len(notesIndex)} \cup noteDirs
Entry(nid, title) == [id |-> nid, title |-> title.val]

IdleReq == [pc |-> "idle", pin |-> <<>>, currentPin |-> <<>>, meta |-> Null,
            res |-> Reply("none", 0, "", NoBody)]

NoVector == [key |-> Null, payload |-> Null, enc |-> Null, used |-> Null, plain |-> Null]
\* ensureDefaultDays() fills an empty day with its default tasks (four for
\* day A, five for day B; here two and one), each under a fresh id
Task(tid, name) == [id |-> tid, name |-> name, done |-> FALSE]
DefaultDays == [A |-> <<Task("t1", "Reading"), Task("t2", "Course Study")>>,
                B |-> <<Task("t3", "Reading")>>]
\* the scheduler page after init() on an empty localStorage
ymd(d) == [ymd |-> d]
getISOWeekKey(d) == [week |-> d \div WeekDays]
DEFAULT_SETTINGS == [autoReset |-> TRUE, autoSort |-> TRUE, dingerEnabled |-> TRUE,
                     recallMode |-> "random"]
NoModal == [open |-> FALSE]
InitScheduler(day, settings) ==
  /\ today = day
  /\ State = [date |-> day, weekKey |-> getISOWeekKey(day), tasks |-> <<>>,
              templates |-> <<>>, archives |-> <<>>, sessions |-> <<>>,
              settings |-> settings, undoStack |-> <<>>]
  /\ nextUid = 1
  /\ modal = NoModal
  /\ localStorage = <<>>
  /\ checkedWeek = getISOWeekKey(day)
\* the ReadingManager closure as the script creates it
NoPrompt == [open |-> FALSE]
InitReading ==
  /\ running = FALSE
  /\ session = Null
  /\ dingerIntervalId = Null
  /\ recallTimeoutId = Null
  /\ recallSequence = <<>>
  /\ intervals = 0
  /\ timeouts = 0
  /\ prompt = NoPrompt
  /\ error = "none"
InitOutside ==
  /\ vector = NoVector
  /\ tasksFile = DefaultDays
  /\ InitScheduler(0, DEFAULT_SETTINGS)
  /\ InitReading

InitNotes ==
  /\ notesIndex = <<>>
  /\ noteDirs = {}
  /\ verDirs = {}
  /\ files = [n \in NoteIds |-> <<>>]
  /\ meta = [pinHash |-> Null, encryptionProfile |-> Str("client-only")]
  /\ JWT_SECRET \in {"env"}
  /\ clock = StartClock
  /\ res = Reply("none", 0, "", NoBody)
  /\ logged = <<>>
  /\ pinReqs = [r \in Reqs |-> IdleReq]

Init == InitNotes /\ InitOutside

\* time passes
Tick ==
  /\ clock < MaxClock
  /\ clock' = clock + 1
  /\ UNCHANGED <<store, config, res, logged, outside>>

\* ------------------------------------------------ POST /api/v3/notes
writeVersion(nid, content) ==
  /\ verDirs' = verDirs \cup {nid}
  /\ files' = [files EXCEPT ![nid] = (clock :> content) @@ @]

\* encryptionMode || metaConf.encryptionProfile || 'client-only'
resolveProfileStored(encryptionMode, metaConf) ==
  Or(metaConf.encryptionProfile, Str("client-only"))
resolveProfile(encryptionMode, metaConf) ==
  Or(encryptionMode, Or(metaConf.encryptionProfile, Str("client-only")))

CreateNoteBody(maybeId, title, blob, encryptionMode, uuid) ==
  LET nid == Or(maybeId, Str(uuid)).val
      entry == Entry(nid, title)
      metaConf == meta
      profile == resolveProfile(encryptionMode, metaConf)
      indexLog == LogEntry("notes.index.update", [count |-> Len(notesIndex) + 1])
      createLog == LogEntry("notes.create", [id |-> nid, title |-> title, profile |-> profile])
      ok == Reply("createNote", 200, "", [ok |-> TRUE, note |-> entry])
  IN
  /\ notesIndex' = <<entry>> \o notesIndex
  /\ noteDirs' = noteDirs \cup {nid}
  /\ IF blob # NoBlob /\ Truthy(blob.plaintext) /\ profile = Str("server-assisted")
     THEN IF BufferFromThrows(blob.plaintext)
          THEN /\ UNCHANGED <<verDirs, files>>
               /\ res' = Reply("createNote", 500, "server encryption failed", NoBody)
               /\ logged' = <<indexLog>>
          ELSE \E iv \in RandomIvs :
                 LET serverKey == scryptSync(JWT_SECRET, "server-key-salt-v3")
                     gz == gzipBufferSync(BufferFrom(blob.plaintext))
                     enc == aesGcmEncrypt(serverKey, gz, iv)
                     versionMeta == [iv |-> enc.iv, checksum |-> sha256Hex(enc.ciphertext),
                                     mode |-> Str("server-assisted"),
                                     meta |-> Or(blob.meta, EmptyObject)]
                 IN
                 /\ VersionCount < MaxVersions \/ clock \in DOMAIN files[nid]
                 /\ writeVersion(nid, gzipBufferSync(JSONstringify(
                      [ciphertext |-> enc.ciphertext, iv |-> enc.iv, meta |-> versionMeta])))
                 /\ res' = ok
                 /\ logged' = <<indexLog, createLog>>
     ELSE /\ IF blob # NoBlob /\ Truthy(blob.ciphertext) /\ Truthy(blob.iv)
             THEN LET versionMeta == [iv |-> blob.iv, checksum |-> sha256Hex(blob.ciphertext),
                                      mode |-> profile, meta |-> Or(blob.meta, EmptyObject)]
                  IN
                  /\ VersionCount < MaxVersions \/ clock \in DOMAIN files[nid]
                  /\ writeVersion(nid, gzipBufferSync(JSONstringify(
                       [ciphertext |-> blob.ciphertext, iv |-> blob.iv, meta |-> versionMeta])))
             ELSE UNCHANGED <<verDirs, files>>
          /\ res' = ok
          /\ logged' = <<indexLog, createLog>>
  /\ UNCHANGED <<config, clock, outside>>

\* the handler from its first line: if (!title) return 400
CreateNoteUntitled(title) ==
  /\ Len(notesIndex) < MaxIndex
  /\ \E maybeId \in IdVals, blob \in BlobVals, encryptionMode \in ModeVals :
       \E uuid \in (IF Truthy(maybeId) THEN {maybeId.val} ELSE NoteIds \ UsedIds) :
         CreateNoteBody(maybeId, title, blob, encryptionMode, uuid)
CreateNoteTitled(title) ==
  \/ /\ ~Truthy(title)
     /\ res' = Reply("createNote", 400, "title required", NoBody)
     /\ logged' = <<>>
     /\ UNCHANGED <<store, config, clock, outside>>
  \/ /\ Truthy(title)
     /\ Len(notesIndex) < MaxIndex
     /\ \E maybeId \in IdVals, blob \in BlobVals, encryptionMode \in ModeVals :
          \E uuid \in (IF Truthy(maybeId) THEN {maybeId.val} ELSE NoteIds \ UsedIds) :
            CreateNoteBody(maybeId, title, blob, encryptionMode, uuid)

CreateNoteAs(auth) ==
  \/ Rejected(auth)
  \/ /\ requireAuth(auth) = NoBody
     /\ \E title \in TitleVals : CreateNoteTitled(title)
CreateNote == \E auth \in Auths : CreateNoteAs(auth)

\* ------------------------------------- GET /api/v3/notes/:id/versions
\* the name `${Date.now()}.json.gz` as UTF-16 code units
RECURSIVE Digits(_)
Digits(n) == IF n < 10 THEN <<n>> ELSE Digits(n \div 10) \o <<n % 10>>
Suffix == <<46, 106, 115, 111, 110, 46, 103, 122>>
FileName(t) == [i \in 1..Len(Digits(t)) |-> 48 + Digits(t)[i]] \o Suffix

\* the default comparison of Array.prototype.sort: by code units, a proper
\* prefix first
StrLess(a, b) ==
  \E k \in 1..(Len(a) + 1) :
    /\ \A j \in 1..(k - 1) : j <= Len(b) /\ a[j] = b[j]
    /\ \/ k = Len(a) + 1 /\ Len(b) > Len(a)
       \/ k <= Len(a) /\ k <= Len(b) /\ a[k] < b[k]

RECURSIVE sort(_)
sort(S) ==
  IF S = {} THEN <<>>
  ELSE LET m == CHOOSE x \in S : \A y \in S : x = y \/ StrLess(x, y)
       IN <<m>> \o sort(S \ {m})
reverse(q) == [i \in 1..Len(q) |-> q[Len(q) + 1 - i]]

\* Number(f.split('.json.gz')[0])
RECURSIVE Number(_)
Number(ds) ==
  IF Len(ds) = 0 THEN 0
  ELSE 10 * Number(SubSeq(ds, 1, Len(ds) - 1)) + (ds[Len(ds)] - 48)
split(f) == SubSeq(f, 1, Len(f) - Len(Suffix))

readdirSync(nid) == {FileName(t) : t \in DOMAIN files[nid]}
readFileSync(nid, f) == files[nid][Number(split(f))]

versionsOf(nid) ==
  LET fs == reverse(sort(readdirSync(nid)))
  IN [i \in 1..Len(fs) |->
        [filename |-> fs[i], ts |-> Number(split(fs[i])),
         meta |-> IF gunzipThrows(readFileSync(nid, fs[i]))
                  THEN Null
                  ELSE JSONparse(gunzipBufferSync(readFileSync(nid, fs[i]))).meta]]

ListVersionsAs(auth) ==
  \/ Rejected(auth)
  \/ /\ requireAuth(auth) = NoBody
     /\ \E nid \in NoteIds :
          res' = To([id |-> nid],
                    IF nid \notin verDirs
                    THEN Reply("listVersions", 404, "no versions", NoBody)
                    ELSE Reply("listVersions", 200, "", [versions |-> versionsOf(nid)]))
     /\ logged' = <<>>
     /\ UNCHANGED <<store, config, clock, outside>>
ListVersions == \E auth \in Auths : ListVersionsAs(auth)

\* ------------------------------- GET /api/v3/notes/:id/versions/:file
\* res.json({ ciphertext: payload.ciphertext, iv: payload.iv, meta: payload.meta })
versionBodySwapped(payload) ==
  [ciphertext |-> payload.iv, iv |-> payload.ciphertext, meta |-> payload.meta]
versionBody(payload) ==
  [ciphertext |-> payload.ciphertext, iv |-> payload.iv, meta |-> payload.meta]

ReadVersionAs(auth) ==
  \/ Rejected(auth)
  \/ /\ requireAuth(auth) = NoBody
     /\ \E nid \in NoteIds, t \in Timestamps :
          res' = To([id |-> nid, file |-> FileName(t)],
                    IF ~(nid \in verDirs /\ FileName(t) \in readdirSync(nid))
                    THEN Reply("readVersion", 404, "not found", NoBody)
                    ELSE IF gunzipThrows(readFileSync(nid, FileName(t)))
                    THEN Reply("readVersion", 500, "Internal Server Error", NoBody)
                    ELSE LET payload == JSONparse(gunzipBufferSync(readFileSync(nid, FileName(t))))
                         IN Reply("readVersion", 200, "", versionBody(payload)))
     /\ logged' = <<>>
     /\ UNCHANGED <<store, config, clock, outside>>
ReadVersion == \E auth \in Auths : ReadVersionAs(auth)

\* ------------------------------------------ PATCH /api/v3/notes/:id
PatchBodies == [id : IdVals, title : TitleVals]
findIndex(notes, nid) ==
  IF \E i \in 1..Len(notes) : notes[i].id = nid
  THEN CHOOSE i \in 1..Len(notes) :
         notes[i].id = nid /\ \A j \in 1..(i - 1) : notes[j].id # nid
  ELSE 0
\* Object.assign(target, body): every field the body has replaces the target's
ObjectAssign(target, body) ==
  [id |-> IF body.id # Undefined THEN body.id.val ELSE target.id,
   title |-> IF body.title # Undefined THEN body.title.val ELSE target.title]

PatchNoteAs(auth) ==
  \/ Rejected(auth)
  \/ /\ requireAuth(auth) = NoBody
     /\ \E nid \in NoteIds, body \in PatchBodies :
          LET idx == findIndex(notesIndex, nid)
          IN IF idx = 0
             THEN /\ res' = Reply("patchNote", 404, "note not found", NoBody)
                  /\ logged' = <<>>
                  /\ UNCHANGED notesIndex
             ELSE LET patched == ObjectAssign(notesIndex[idx], body)
                  IN /\ notesIndex' = [notesIndex EXCEPT ![idx] = patched]
                     /\ res' = Reply("patchNote", 200, "", [ok |-> TRUE, note |-> patched])
                     /\ logged' = <<LogEntry("notes.index.update", [count |-> Len(notesIndex)]),
                                    LogEntry("notes.update", [id |-> nid])>>
     /\ UNCHANGED <<noteDirs, verDirs, files, config, clock, outside>>
PatchNote == \E auth \in Auths : PatchNoteAs(auth)

\* ----------------------------------------- DELETE /api/v3/notes/:id
filter(notes, nid) == SelectSeq(notes, LAMBDA n : n.id # nid)
\* path.join(BLOBS_DIR, nid) as its segments below data/blobs; req.params.id
\* is URL-decoded, so it may hold a separator (%2F)
PathIds == {"n1/versions"}
pathJoin(nid) == IF nid = "n1/versions" THEN <<"n1", "versions">> ELSE <<nid>>
within(dir, path) == Len(dir) <= Len(path) /\ SubSeq(path, 1, Len(dir)) = dir
\* fs.rmSync(dir, { recursive: true, force: true }): dir and all below it
rmSync(dir) ==
  /\ noteDirs' = {n \in noteDirs : ~within(dir, <<n>>)}
  /\ verDirs' = {n \in verDirs : ~within(dir, <<n, "versions">>)}
  /\ files' = [n \in NoteIds |->
                IF within(dir, <<n, "versions">>) THEN <<>> ELSE files[n]]

DeleteNoteAs(auth) ==
  \/ Rejected(auth)
  \/ /\ requireAuth(auth) = NoBody
     /\ \E nid \in NoteIds \cup PathIds :
          /\ notesIndex' = filter(notesIndex, nid)
          /\ rmSync(pathJoin(nid))
          /\ res' = To([id |-> nid], Reply("deleteNote", 200, "", [ok |-> TRUE]))
          /\ logged' = <<LogEntry("notes.index.update", [count |-> Len(filter(notesIndex, nid))]),
                         LogEntry("notes.delete", [id |-> nid])>>
     /\ UNCHANGED <<config, clock, outside>>
DeleteNote == \E auth \in Auths : DeleteNoteAs(auth)

\* ---------------------------------------------- POST /api/v3/import
RECURSIVE SeqsUpTo(_, _)
SeqsUpTo(S, n) ==
  IF n = 0 THEN {<<>>}
  ELSE SeqsUpTo(S, n - 1) \cup
       {Append(q, x) : q \in {r \in SeqsUpTo(S, n - 1) : Len(r) = n - 1}, x \in S}
ImportEntries == {[id |-> n, title |-> "t1"] : n \in NoteIds}
ImportPayloads ==
  {[hasNotesIndex |-> FALSE, notesIndex |-> <<>>]} \cup
  {[hasNotesIndex |-> TRUE, notesIndex |-> q] : q \in SeqsUpTo(ImportEntries, MaxIndex)}

ImportAs(auth) ==
  \/ Rejected(auth)
  \/ /\ requireAuth(auth) = NoBody
     /\ \E payload \in ImportPayloads :
          IF payload.hasNotesIndex
          THEN /\ notesIndex' = payload.notesIndex
               /\ logged' = <<LogEntry("notes.index.update", [count |-> Len(payload.notesIndex)]),
                              LogEntry("import", [summary |-> {"notesIndex"}])>>
          ELSE /\ UNCHANGED notesIndex
               /\ logged' = <<LogEntry("import", [summary |-> {}])>>
     /\ res' = Reply("import", 200, "", [ok |-> TRUE])
     /\ UNCHANGED <<noteDirs, verDirs, files, config, clock, outside>>
Import == \E auth \in Auths : ImportAs(auth)

Next ==
  \/ Tick
  \/ CreateNote
  \/ ListVersions
  \/ ReadVersion
  \/ PatchNote
  \/ DeleteNote
  \/ Import

\* ------------------------------------- POST /api/v3/auth/setup-pin
\* The handler awaits bcrypt twice; between its read of meta.json and its
\* write of it other requests run.  pc: idle -> hashCreate -> done, or
\* idle -> compare -> hashChange -> done; a rejected request goes to done.
bcryptHash(pin, salt) == [bcrypt |-> pin, salt |-> salt]
bcryptCompareAny(pin, hash) == TRUE
bcryptCompare(pin, hash) == hash.bcrypt = pin
PinReply(status, text) == Reply("setupPin", status, text, NoBody)
finish(r, reply) == [pinReqs EXCEPT ![r].pc = "done", ![r].res = reply]

SetupPinBegin(r) ==
  /\ pinReqs[r].pc = "idle"
  /\ \E pin \in PinVals, currentPin \in PinVals :
       LET req == [pinReqs[r] EXCEPT !.pin = pin, !.currentPin = currentPin]
       IN IF pin = <<>> \/ Len(pin) < 6
          THEN pinReqs' = [pinReqs EXCEPT ![r] =
                 [req EXCEPT !.pc = "done",
                             !.res = PinReply(400, "pin required (min 6 chars recommended)")]]
          ELSE IF meta.pinHash = Null
          THEN pinReqs' = [pinReqs EXCEPT ![r] = [req EXCEPT !.pc = "hashCreate", !.meta = meta]]
          ELSE IF currentPin = <<>>
          THEN pinReqs' = [pinReqs EXCEPT ![r] =
                 [req EXCEPT !.pc = "done", !.meta = meta,
                             !.res = PinReply(400, "currentPin required to change pin")]]
          ELSE pinReqs' = [pinReqs EXCEPT ![r] = [req EXCEPT !.pc = "compare", !.meta = meta]]
  /\ UNCHANGED <<store, meta, JWT_SECRET, clock, res, logged, outside>>

\* bcrypt.hash resolved: meta.pinHash = hash; writeJson(META_FILE, meta)
SetupPinCreate(r) ==
  /\ pinReqs[r].pc = "hashCreate"
  /\ \E salt \in Salts :
       meta' = [pinReqs[r].meta EXCEPT !.pinHash = bcryptHash(pinReqs[r].pin, salt)]
  /\ pinReqs' = finish(r, PinReply(200, "PIN created"))
  /\ logged' = <<LogEntry("auth.setupPin", [createdAt |-> clock])>>
  /\ UNCHANGED <<store, JWT_SECRET, clock, res, outside>>

\* bcrypt.compare resolved
SetupPinCompare(r) ==
  /\ pinReqs[r].pc = "compare"
  /\ IF bcryptCompare(pinReqs[r].currentPin, pinReqs[r].meta.pinHash)
     THEN pinReqs' = [pinReqs EXCEPT ![r].pc = "hashChange"]
     ELSE pinReqs' = finish(r, PinReply(403, "invalid currentPin"))
  /\ UNCHANGED <<store, meta, JWT_SECRET, clock, res, logged, outside>>

SetupPinChange(r) ==
  /\ pinReqs[r].pc = "hashChange"
  /\ \E salt \in Salts :
       meta' = [pinReqs[r].meta EXCEPT !.pinHash = bcryptHash(pinReqs[r].pin, salt)]
  /\ pinReqs' = finish(r, PinReply(200, "PIN changed"))
  /\ logged' = <<LogEntry("auth.changePin", [ts |-> clock])>>
  /\ UNCHANGED <<store, JWT_SECRET, clock, res, outside>>

NextAuth ==
  \/ \E r \in Reqs : SetupPinBegin(r)
  \/ \E r \in Reqs : SetupPinCreate(r)
  \/ \E r \in Reqs : SetupPinCompare(r)
  \/ \E r \in Reqs : SetupPinChange(r)

SpecAuth == Init /\ [][NextAuth]_vars

Spec == Init /\ [][Next]_vars

\* ------------------------------------ a meta.json found at start-up
\* writeIfMissing leaves an existing data/meta.json as it is, and no route
\* writes encryptionProfile: the default is the one the file came with.
DefaultProfiles == {Str("client-only"), Str("server-assisted")}
InitMeta ==
  /\ notesIndex = <<>>
  /\ noteDirs = {}
  /\ verDirs = {}
  /\ files = [n \in NoteIds |-> <<>>]
  /\ \E p \in DefaultProfiles : meta = [pinHash |-> Null, encryptionProfile |-> p]
  /\ JWT_SECRET \in {"env"}
  /\ clock = StartClock
  /\ res = Reply("none", 0, "", NoBody)
  /\ logged = <<>>
  /\ pinReqs = [r \in Reqs |-> IdleReq]
  /\ InitOutside

\* the routes that write, read or remove version files
NextVersions ==
  \/ Tick
  \/ CreateNote
  \/ ListVersions
  \/ ReadVersion
  \/ DeleteNote

SpecMeta == InitMeta /\ [][NextVersions]_vars

\* --------------------------------------- the version files at rest
\* The files under data/blobs are read back as the disk holds them.  Between
\* two requests a stored file may be replaced by a well-formed record with
\* another ciphertext, or by bytes that no longer decode.
Altered == Str("c2")
AlterAtRest ==
  /\ \E n \in NoteIds : \E t \in DOMAIN files[n] :
       /\ ~gunzipThrows(files[n][t])
       /\ files' = [files EXCEPT ![n][t] =
            gzipBufferSync(JSONstringify(
              [JSONparse(gunzipBufferSync(@)) EXCEPT !.ciphertext = Altered]))]
  /\ UNCHANGED <<notesIndex, noteDirs, verDirs, config, clock, res, logged, outside>>
CorruptAtRest ==
  /\ \E n \in NoteIds : \E t \in DOMAIN files[n] :
       files' = [files EXCEPT ![n][t] = Garbage]
  /\ UNCHANGED <<notesIndex, noteDirs, verDirs, config, clock, res, logged, outside>>

\* PATCH and import write the index only, which no read of a version consults
NextRest ==
  \/ NextVersions
  \/ AlterAtRest
  \/ CorruptAtRest

SpecRest == Init /\ [][NextRest]_vars

\* ------------------------------------------------- process restart
\* The data directory outlives the process.  A new process reads
\* THEHAYDEN_JWT_SECRET again and, when it is not set, draws a fresh random
\* secret; requests in flight and their responses are gone.
RandomSecrets == {"r1", "r2"}
Restart ==
  /\ JWT_SECRET' \in (IF JWT_SECRET = "env" THEN {"env"} ELSE RandomSecrets)
  /\ res' = Reply("none", 0, "", NoBody)
  /\ logged' = <<>>
  /\ pinReqs' = [r \in Reqs |-> IdleReq]
  /\ UNCHANGED <<store, meta, clock, outside>>

InitRestart ==
  /\ notesIndex = <<>>
  /\ noteDirs = {}
  /\ verDirs = {}
  /\ files = [n \in NoteIds |-> <<>>]
  /\ meta = [pinHash |-> Null, encryptionProfile |-> Str("server-assisted")]
  /\ JWT_SECRET \in {"env"} \cup RandomSecrets
  /\ clock = StartClock
  /\ res = Reply("none", 0, "", NoBody)
  /\ logged = <<>>
  /\ pinReqs = [r \in Reqs |-> IdleReq]
  /\ InitOutside

NextRestart ==
  \/ NextVersions
  \/ Restart

SpecRestart == InitRestart /\ [][NextRestart]_vars

\* ------------------------------------- aesGcmEncrypt / aesGcmDecrypt
\* The two helpers applied to a key and a payload: encrypt once, then
\* decrypt what it returned under any key.
deriveKeyFromPin(pin) == [pbkdf2 |-> pin, salt |-> "TheHaydenSphereSaltV3"]
Keys == {scryptSync(secret, "server-key-salt-v3") : secret \in {"env", "r1"}}
          \cup {deriveKeyFromPin(pin) : pin \in PinVals \ {<<>>, <<1, 2, 3, 4, 5>>}}
Payloads == {BufferFrom(Str(x)) : x \in {"", "hello", "c1"}}
              \cup {gzipBufferSync(BufferFrom(Str(x))) : x \in {"", "hello", "c1"}}

InitCrypto ==
  /\ InitNotes
  /\ tasksFile = DefaultDays
  /\ InitScheduler(0, DEFAULT_SETTINGS)
  /\ InitReading
  /\ \E k \in Keys, p \in Payloads :
       vector = [NoVector EXCEPT !.key = k, !.payload = p]

Encrypt ==
  /\ vector.key # Null /\ vector.enc = Null
  /\ \E iv \in RandomIvs :
       vector' = [vector EXCEPT !.enc = aesGcmEncrypt(vector.key, vector.payload, iv)]
  /\ UNCHANGED <<store, config, clock, res, logged, tasksStore, browser>>

Decrypt ==
  /\ vector.enc # Null /\ vector.plain = Null
  /\ \E k \in Keys :
       vector' = [vector EXCEPT
                    !.used = k,
                    !.plain = aesGcmDecrypt(k, vector.enc.ciphertext, vector.enc.iv)]
  /\ UNCHANGED <<store, config, clock, res, logged, tasksStore, browser>>

NextCrypto ==
  \/ Encrypt
  \/ Decrypt

SpecCrypto == InitCrypto /\ [][NextCrypto]_vars

\* ------------------------------------------------------ /api/v3/tasks
TaskIds == {"t1", "t2", "t3"}
Days == {"A", "B"}
DayVals == {Undefined} \cup {Str(d) : d \in Days}
NameVals == {Undefined, Str("Reading")}
Arr(seq) == [type |-> "array", val |-> seq]
isArray(v) == v.type = "array"
OrderVals == {Undefined} \cup {Arr(q) : q \in SeqsUpTo(TaskIds, MaxOrder)}
TaskIdsOf(tasks) == UNION {{tasks[d][i].id : i \in 1..Len(tasks[d])} : d \in Days}
loadTasks == tasksFile
countsLog(obj) == LogEntry("tasks.update", [counts |-> [A |-> Len(obj.A), B |-> Len(obj.B)]])
RejectedTasks(auth) ==
  /\ Rejected(auth)
  /\ UNCHANGED tasksFile

ListTasksAs(auth) ==
  \/ RejectedTasks(auth)
  \/ /\ requireAuth(auth) = NoBody
     /\ \E query \in DayVals :
          LET day == IF query = Str("B") THEN "B" ELSE "A"
              tasks == loadTasks
          IN res' = Reply("listTasks", 200, "", [day |-> day, tasks |-> tasks[day]])
     /\ logged' = <<>>
     /\ UNCHANGED <<store, config, clock, outside>>
ListTasks == \E auth \in Auths : ListTasksAs(auth)

CreateTaskAs(auth) ==
  \/ RejectedTasks(auth)
  \/ /\ requireAuth(auth) = NoBody
     /\ \E dayVal \in DayVals, name \in NameVals :
          LET day == Or(dayVal, Str("A")).val
              tasks == loadTasks
          IN IF ~Truthy(name)
             THEN /\ res' = Reply("createTask", 400, "name required", NoBody)
                  /\ logged' = <<>>
                  /\ UNCHANGED tasksFile
             ELSE \E uuid \in TaskIds \ TaskIdsOf(tasks) :
                    LET t == Task(uuid, name.val)
                        saved == [tasks EXCEPT ![day] = Append(@, t)]
                    IN /\ tasksFile' = saved
                       /\ logged' = <<countsLog(saved),
                                      LogEntry("tasks.create", [taskId |-> uuid, day |-> day])>>
                       /\ res' = Reply("createTask", 200, "", [ok |-> TRUE, task |-> t])
     /\ UNCHANGED <<store, config, clock, helpers, browser>>
CreateTask == \E auth \in Auths : CreateTaskAs(auth)

\* Object.assign(task, patch) on the task with that id, in either day
PatchTaskAs(auth) ==
  \/ RejectedTasks(auth)
  \/ /\ requireAuth(auth) = NoBody
     /\ \E tid \in TaskIds, patch \in {[done |-> TRUE]} :
          LET tasks == loadTasks
              assign(t) == IF t.id = tid THEN [t EXCEPT !.done = patch.done] ELSE t
              saved == [d \in Days |-> [i \in 1..Len(tasks[d]) |-> assign(tasks[d][i])]]
          IN IF tid \notin TaskIdsOf(tasks)
             THEN /\ res' = To([id |-> tid], Reply("patchTask", 404, "task not found", NoBody))
                  /\ logged' = <<>>
                  /\ UNCHANGED tasksFile
             ELSE /\ tasksFile' = saved
                  /\ logged' = <<countsLog(saved),
                                 LogEntry("tasks.update", [taskId |-> tid, patch |-> patch])>>
                  /\ res' = To([id |-> tid], Reply("patchTask", 200, "", [ok |-> TRUE]))
     /\ UNCHANGED <<store, config, clock, helpers, browser>>
PatchTask == \E auth \in Auths : PatchTaskAs(auth)

DeleteTaskAs(auth) ==
  \/ RejectedTasks(auth)
  \/ /\ requireAuth(auth) = NoBody
     /\ \E tid \in TaskIds :
          LET tasks == loadTasks
              saved == [d \in Days |-> filter(tasks[d], tid)]
          IN /\ tasksFile' = saved
             /\ logged' = <<countsLog(saved), LogEntry("tasks.delete", [taskId |-> tid])>>
             /\ res' = To([id |-> tid], Reply("deleteTask", 200, "", [ok |-> TRUE]))
     /\ UNCHANGED <<store, config, clock, helpers, browser>>
DeleteTask == \E auth \in Auths : DeleteTaskAs(auth)

\* order.map(i => map[i]).filter(Boolean), map being the day's tasks by id
reordered(list, order) ==
  LET map(i) == IF \E k \in 1..Len(list) : list[k].id = i
                THEN (CHOOSE k \in 1..Len(list) :
                        /\ list[k].id = i
                        /\ \A j \in (k + 1)..Len(list) : list[j].id # i)
                ELSE 0
      mapped == [n \in 1..Len(order) |-> map(order[n])]
      kept == SelectSeq(mapped, LAMBDA k : k # 0)
  IN [n \in 1..Len(kept) |-> list[kept[n]]]
ReorderWith(dayVal, order) ==
  LET day == Or(dayVal, Str("A")).val
      tasks == loadTasks
  IN IF ~isArray(order)
     THEN /\ res' = Reply("reorderTasks", 400, "order array required", NoBody)
          /\ logged' = <<>>
          /\ UNCHANGED tasksFile
     ELSE LET saved == [tasks EXCEPT ![day] = reordered(tasks[day], order.val)]
          IN /\ tasksFile' = saved
             /\ logged' = <<countsLog(saved),
                            LogEntry("tasks.reorder", [day |-> day, order |-> order.val])>>
             /\ res' = Reply("reorderTasks", 200, "", [ok |-> TRUE, tasks |-> saved[day]])
ReorderTasksAs(auth) ==
  \/ RejectedTasks(auth)
  \/ /\ requireAuth(auth) = NoBody
     /\ \E dayVal \in DayVals, order \in OrderVals : ReorderWith(dayVal, order)
     /\ UNCHANGED <<store, config, clock, helpers, browser>>
ReorderTasks == \E auth \in Auths : ReorderTasksAs(auth)

NextTasks ==
  \/ ListTasks
  \/ CreateTask
  \/ PatchTask
  \/ DeleteTask
  \/ ReorderTasks

SpecTasks == Init /\ [][NextTasks]_vars

\* ------------------------------------------- the MCIF scheduler page
\* src/unnamed/part_000.  A date is the number of its day, a week the
\* WeekDays days from a multiple of WeekDays on; a time of day is a number,
\* 0 for the empty time.  STATE.tasks is a function from the date keys it
\* has to task lists.  createdAt is the count of uid() at creation.
Dates == 0..((MaxWeek + 1) * WeekDays - 1)
startOfISOWeek(d) == d - (d % WeekDays)
WeekOf(d) == {ymd(startOfISOWeek(d) + i) : i \in 0..(WeekDays - 1)}
uid(p, n) == [prefix |-> p, n |-> n]
tasksAt(tasks, key) == IF key \in DOMAIN tasks THEN tasks[key] ELSE <<>>
withList(tasks, key, list) ==
  [k \in DOMAIN tasks \cup {key} |-> IF k = key THEN list ELSE tasks[k]]
indexOf(list, id) ==
  IF \E i \in 1..Len(list) : list[i].id = id
  THEN CHOOSE i \in 1..Len(list) : list[i].id = id /\ \A j \in 1..(i - 1) : list[j].id # id
  ELSE 0
RECURSIVE TaskCountOver(_, _)
TaskCountOver(tasks, keys) ==
  IF keys = {} THEN 0
  ELSE LET k == CHOOSE x \in keys : TRUE
       IN Len(tasks[k]) + TaskCountOver(tasks, keys \ {k})
TaskCount(tasks) == TaskCountOver(tasks, DOMAIN tasks)
splice(list, idx) == SubSeq(list, 1, idx - 1) \o SubSeq(list, idx + 1, Len(list))

\* Array.prototype.sort (stable) under the comparator of the renderers
\* (time, then createdAt) or of move and save (time only)
before(a, b, byCreated) ==
  \/ a.time < b.time
  \/ byCreated /\ a.time = b.time /\ a.createdAt < b.createdAt
RECURSIVE arraySort(_, _)
arraySort(list, byCreated) ==
  IF list = <<>> THEN <<>>
  ELSE LET rest == arraySort(SubSeq(list, 1, Len(list) - 1), byCreated)
           x == list[Len(list)]
           k == Cardinality({i \in 1..Len(rest) : ~before(x, rest[i], byCreated)})
       IN SubSeq(rest, 1, k) \o <<x>> \o SubSeq(rest, k + 1, Len(rest))

\* renderTasksForDate(ymd(date)) and fillWeekColumns(): with autoSort the
\* lists of the viewed week are sorted in place
fillWeekColumns(state) ==
  IF state.settings.autoSort
  THEN [state EXCEPT !.tasks =
          [k \in DOMAIN state.tasks |->
             IF k \in WeekOf(state.date) THEN arraySort(state.tasks[k], TRUE)
             ELSE state.tasks[k]]]
  ELSE state
\* renderHeader(): the week badge is computed from the viewed date
renderHeader(state) == [state EXCEPT !.weekKey = getISOWeekKey(state.date)]
refreshAll(state) == fillWeekColumns(renderHeader(state))

persistAll(state) ==
  [k \in DOMAIN localStorage \cup {"tasks", "templates", "archives", "sessions",
                                   "settings"} |->
     CASE k = "tasks" -> JSONstringify(state.tasks)
       [] k = "templates" -> JSONstringify(state.templates)
       [] k = "archives" -> JSONstringify(state.archives)
       [] k = "sessions" -> JSONstringify(state.sessions)
       [] k = "settings" -> JSONstringify(state.settings)
       [] OTHER -> localStorage[k]]

pushUndoUnlimited(state) ==
  [state EXCEPT !.undoStack = Append(@, JSONstringify([tasks |-> state.tasks]))]
pushUndo(state) ==
  LET pushed == Append(state.undoStack, JSONstringify([tasks |-> state.tasks]))
  IN [state EXCEPT !.undoStack = IF Len(pushed) > UNDO_LIMIT THEN Tail(pushed) ELSE pushed]

\* Ctrl/Cmd+Z, also while a dialog is open
popUndo ==
  /\ IF State.undoStack = <<>>
     THEN UNCHANGED <<State, localStorage>>
     ELSE LET s == State.undoStack[Len(State.undoStack)]
              obj == JSONparse(s)
              restored == [State EXCEPT !.undoStack = SubSeq(@, 1, Len(@) - 1),
                                        !.tasks = obj.tasks]
          IN /\ localStorage' = persistAll(restored)
             /\ State' = refreshAll(restored)
  /\ UNCHANGED <<server, reading, today, nextUid, modal, checkedWeek>>

NewTask(n, title, time) ==
  [id |-> uid("t", n), title |-> title, notes |-> "", time |-> time, createdAt |-> n,
   complete |-> FALSE]

\* the controls of the page are under the dialog while it is open
addTaskFromUI ==
  /\ ~modal.open
  /\ nextUid <= MaxUid
  /\ \E title \in {"", "read"}, time \in {0} :
       IF title = ""
       THEN UNCHANGED <<State, nextUid, localStorage>>
       ELSE LET key == ymd(State.date)
                snap == pushUndo(State)
                added == [snap EXCEPT !.tasks =
                            withList(@, key, Append(tasksAt(@, key),
                                                    NewTask(nextUid, title, time)))]
            IN /\ nextUid' = nextUid + 1
               /\ localStorage' = persistAll(added)
               /\ State' = fillWeekColumns(added)
  /\ UNCHANGED <<server, reading, today, modal, checkedWeek>>

\* snapshotAndRemoveTask(id, dateKey) of a task shown in the day or week view
snapshotAndRemoveTask(id, dateKey) ==
  LET snap == pushUndo(State)
      arr == tasksAt(snap.tasks, dateKey)
      idx == indexOf(arr, id)
  IN IF idx > 0
     THEN LET removed == [snap EXCEPT !.tasks = withList(@, dateKey, splice(arr, idx))]
          IN /\ localStorage' = persistAll(removed)
             /\ State' = fillWeekColumns(removed)
     ELSE /\ State' = snap
          /\ UNCHANGED localStorage
Shown == {<<k, i>> \in (DOMAIN State.tasks \cap WeekOf(State.date)) \X (1..MaxUid) :
            i <= Len(State.tasks[k])}
removeTaskConfirm ==
  /\ ~modal.open
  /\ \E ki \in Shown : snapshotAndRemoveTask(State.tasks[ki[1]][ki[2]].id, ki[1])
  /\ UNCHANGED <<server, reading, today, nextUid, modal, checkedWeek>>

duplicateTask ==
  /\ ~modal.open
  /\ nextUid <= MaxUid
  /\ \E ki \in Shown :
       LET task == State.tasks[ki[1]][ki[2]]
           dateKey == ki[1]
           snap == pushUndo(State)
           copy == [task EXCEPT !.id = uid("t", nextUid), !.createdAt = nextUid]
           added == [snap EXCEPT !.tasks =
                       withList(@, dateKey, Append(tasksAt(@, dateKey), copy))]
       IN /\ nextUid' = nextUid + 1
          /\ localStorage' = persistAll(added)
          /\ State' = fillWeekColumns(added)
  /\ UNCHANGED <<server, reading, today, modal, checkedWeek>>

\* a task dragged from the day view onto another day's column of the week grid
\* The first key of Object.keys(STATE.tasks) whose list has the id: the keys
\* come in the order of their insertion, which the function does not keep,
\* so any key whose list has the id may be the first.
KeysWith(tasks, id) == {k \in DOMAIN tasks : indexOf(tasks[k], id) > 0}
moveTaskToDate ==
  /\ ~modal.open
  /\ \E ki \in Shown : \E destDateKey \in WeekOf(State.date) \ {ki[1]} :
     \E k \in KeysWith(State.tasks, State.tasks[ki[1]][ki[2]].id) :
       LET id == State.tasks[ki[1]][ki[2]].id
           snap == pushUndo(State)
           arr == snap.tasks[k]
           idx == indexOf(arr, id)
           t == [dayMoved |-> [from |-> k, to |-> destDateKey]] @@ arr[idx]
           taken == withList(snap.tasks, k, splice(arr, idx))
           pushed == Append(tasksAt(taken, destDateKey), t)
           moved == [snap EXCEPT !.tasks =
                       withList(taken, destDateKey,
                                IF snap.settings.autoSort THEN arraySort(pushed, FALSE)
                                ELSE pushed)]
       IN /\ localStorage' = persistAll(moved)
          /\ State' = fillWeekColumns(moved)
  /\ UNCHANGED <<server, reading, today, nextUid, modal, checkedWeek>>

openEditTaskModal ==
  /\ ~modal.open
  /\ \E ki \in Shown :
       modal' = [open |-> TRUE, task |-> State.tasks[ki[1]][ki[2]], dateKey |-> ki[1],
                 days |-> WeekOf(State.date)]
  /\ UNCHANGED <<server, reading, State, today, nextUid, localStorage, checkedWeek>>

hideModal ==
  /\ modal.open
  /\ modal' = NoModal
  /\ UNCHANGED <<server, reading, State, today, nextUid, localStorage, checkedWeek>>

deleteModal ==
  /\ modal.open
  /\ snapshotAndRemoveTask(modal.task.id, modal.dateKey)
  /\ modal' = NoModal
  /\ UNCHANGED <<server, reading, today, nextUid, checkedWeek>>

saveModal ==
  /\ modal.open
  /\ \E newTitle \in {"study"}, newTime \in {modal.task.time}, newDay \in modal.days :
       LET task == modal.task
           dateKey == modal.dateKey
           snap == pushUndo(State)
           arr == tasksAt(snap.tasks, dateKey)
           idx == indexOf(arr, task.id)
           taken == IF idx > 0 THEN withList(snap.tasks, dateKey, splice(arr, idx))
                    ELSE snap.tasks
           updated == [task EXCEPT !.title = newTitle, !.time = newTime]
           pushed == Append(tasksAt(taken, newDay), updated)
           saved == [snap EXCEPT !.tasks =
                       withList(taken, newDay,
                                IF snap.settings.autoSort THEN arraySort(pushed, FALSE)
                                ELSE pushed)]
       IN /\ TaskCount(saved.tasks) <= MaxTasks
          /\ localStorage' = persistAll(saved)
          /\ State' = fillWeekColumns(saved)
  /\ modal' = NoModal
  /\ UNCHANGED <<server, reading, today, nextUid, checkedWeek>>

\* the items of a stored template of two lines, one with a time
TemplateItems == <<[time |-> 9, title |-> "read"], [time |-> 0, title |-> "read"]>>
RECURSIVE pushItems(_, _, _)
pushItems(list, items, n) ==
  IF items = <<>> THEN list
  ELSE pushItems(Append(list, NewTask(n, Head(items).title, Head(items).time)),
                 Tail(items), n + 1)
applyTemplate ==
  /\ ~modal.open
  /\ \E name \in {"plan"} :
       IF name \notin DOMAIN State.templates
       THEN UNCHANGED <<State, nextUid, localStorage>>
       ELSE LET key == ymd(State.date)
                items == State.templates[name]
                snap == pushUndo(State)
                applied == [snap EXCEPT !.tasks =
                              withList(@, key, pushItems(tasksAt(@, key), items, nextUid))]
            IN /\ nextUid + Len(items) - 1 <= MaxUid
               /\ nextUid' = nextUid + Len(items)
               /\ localStorage' = persistAll(applied)
               /\ State' = fillWeekColumns(applied)
  /\ UNCHANGED <<server, reading, today, modal, checkedWeek>>

\* a click on a day column of the week grid
selectDay ==
  /\ ~modal.open
  /\ \E key \in WeekOf(State.date) :
       State' = fillWeekColumns(renderHeader([State EXCEPT !.date = key.ymd]))
  /\ UNCHANGED <<server, reading, today, nextUid, modal, localStorage, checkedWeek>>

TaskOperation ==
  \/ addTaskFromUI
  \/ removeTaskConfirm
  \/ duplicateTask
  \/ moveTaskToDate
  \/ deleteModal
  \/ saveModal
  \/ applyTemplate

NextScheduler ==
  \/ TaskOperation
  \/ openEditTaskModal
  \/ hideModal
  \/ popUndo

\* the page loaded over a localStorage that holds a template
InitPage ==
  /\ InitNotes
  /\ vector = NoVector
  /\ tasksFile = DefaultDays
  /\ today = 0
  /\ State = [date |-> 0, weekKey |-> getISOWeekKey(0), tasks |-> <<>>,
              templates |-> [k \in {"plan"} |-> TemplateItems], archives |-> <<>>,
              sessions |-> <<>>, settings |-> DEFAULT_SETTINGS, undoStack |-> <<>>]
  /\ nextUid = 1
  /\ modal = NoModal
  /\ localStorage = [k \in {"templates"} |-> JSONstringify(State.templates)]
  /\ checkedWeek = getISOWeekKey(0)
  /\ InitReading

SpecScheduler == InitPage /\ [][NextScheduler]_vars

\* --------------------------------------- the weeks of the scheduler
\* The clock moves on by a day; the page is left open.
advanceDay ==
  /\ today + 1 \in Dates
  /\ today' = today + 1
  /\ UNCHANGED <<server, reading, State, nextUid, modal, localStorage, checkedWeek>>

todayBtn ==
  /\ ~modal.open
  /\ State' = refreshAll(renderHeader(
                 [State EXCEPT !.date = today, !.weekKey = getISOWeekKey(today)]))
  /\ UNCHANGED <<server, reading, today, nextUid, modal, localStorage, checkedWeek>>

prevWeek ==
  /\ ~modal.open
  /\ State.date - WeekDays \in Dates
  /\ LET date == State.date - WeekDays
     IN State' = refreshAll(renderHeader(
                   [State EXCEPT !.date = date, !.weekKey = getISOWeekKey(date)]))
  /\ UNCHANGED <<server, reading, today, nextUid, modal, localStorage, checkedWeek>>

nextWeek ==
  /\ ~modal.open
  /\ State.date + WeekDays \in Dates
  /\ LET date == State.date + WeekDays
     IN State' = refreshAll(renderHeader(
                   [State EXCEPT !.date = date, !.weekKey = getISOWeekKey(date)]))
  /\ UNCHANGED <<server, reading, today, nextUid, modal, localStorage, checkedWeek>>

\* the interval callback that init() installs, every 30 seconds
archiveName(wk) == "archive_W" \o ToString(wk.week)
unshift(list, x) ==
  LET added == <<x>> \o list
  IN IF Len(added) > MAX_ARCHIVE_ENTRIES THEN SubSeq(added, 1, Len(added) - 1) ELSE added
weeklyRollover ==
  /\ LET newKey == getISOWeekKey(today)
     IN /\ checkedWeek' = newKey
        /\ IF newKey # State.weekKey
           THEN IF State.settings.autoReset
                THEN LET entry == JSONstringify([key |-> State.weekKey, tasks |-> State.tasks])
                         cleared == [State EXCEPT !.archives = unshift(@, State.weekKey),
                                                  !.tasks = <<>>]
                         stored == persistAll(cleared)
                     IN /\ localStorage' =
                             [k \in DOMAIN stored \cup {archiveName(State.weekKey)} |->
                                IF k = archiveName(State.weekKey) THEN entry ELSE stored[k]]
                        /\ State' = refreshAll([cleared EXCEPT !.date = today,
                                                               !.weekKey = newKey])
                ELSE /\ State' = renderHeader([State EXCEPT !.weekKey = newKey])
                     /\ UNCHANGED localStorage
           ELSE UNCHANGED <<State, localStorage>>
  /\ UNCHANGED <<server, reading, today, nextUid, modal>>

NextRollover ==
  \/ advanceDay
  \/ todayBtn
  \/ prevWeek
  \/ nextWeek
  \/ selectDay
  \/ addTaskFromUI
  \/ weeklyRollover

\* the page loaded with the stored settings, autoReset on or off
InitRollover ==
  /\ InitNotes
  /\ vector = NoVector
  /\ tasksFile = DefaultDays
  /\ \E autoReset \in BOOLEAN :
       InitScheduler(0, [DEFAULT_SETTINGS EXCEPT !.autoReset = autoReset])
  /\ InitReading

SpecRollover == InitRollover /\ [][NextRollover]_vars

\* ------------------------------------------------- ReadingManager
\* The browser's timers are counted: a handle is Scheduled while its timer
\* is live and Spent once the timeout has fired or was cleared; clearing a
\* Spent handle does nothing.  A session object is known by its id; the
\* manager's variable session and the list STATE.sessions share the object.
Scheduled == [handle |-> "scheduled"]
Spent == [handle |-> "spent"]
clearedNever(handle, live) == live
cleared(handle, live) == IF handle = Scheduled THEN live - 1 ELSE live
spend(handle) == IF handle = Scheduled THEN Spent ELSE handle
RecallModes == {"off", "random", "triple"}

sessionAt(sessions, sid) == CHOOSE i \in 1..Len(sessions) : sessions[i].id = sid
createSession(n, settings) ==
  [id |-> uid("sess", n), endedAt |-> Null, recallMode |-> settings.recallMode,
   dingerEnabled |-> settings.dingerEnabled, summaries |-> <<>>, events |-> <<>>]

\* what scheduleNextRecall() makes of the handle, the live timeouts and the
\* sequence
scheduleNextRecall(isRunning, mode, handle, live, sequence) ==
  IF ~isRunning
  THEN [id |-> handle, live |-> live, sequence |-> sequence]
  ELSE LET left == cleared(handle, live)
       IN CASE mode = "off" ->
                 [id |-> spend(handle), live |-> left, sequence |-> sequence]
            [] mode = "random" ->
                 [id |-> Scheduled, live |-> left + 1, sequence |-> sequence]
            [] mode = "triple" ->
                 [id |-> Scheduled, live |-> left + 1,
                  sequence |-> IF sequence = <<>> THEN <<"immediate", "mid", "final">>
                               ELSE sequence]
Rescheduled(next) ==
  /\ recallTimeoutId' = next.id
  /\ timeouts' = next.live
  /\ recallSequence' = next.sequence

start ==
  /\ IF running
     THEN UNCHANGED <<State, nextUid, localStorage, running, session, dingerIntervalId,
                      recallTimeoutId, recallSequence, intervals, timeouts>>
     ELSE /\ nextUid <= MaxUid
          /\ LET s == createSession(nextUid, State.settings)
                 created == [State EXCEPT !.sessions = <<s>> \o @]
             IN /\ State' = created
                /\ localStorage' = persistAll(created)
                /\ nextUid' = nextUid + 1
                /\ session' = s.id
                /\ running' = TRUE
                /\ IF s.dingerEnabled
                   THEN /\ intervals' = cleared(dingerIntervalId, intervals) + 1
                        /\ dingerIntervalId' = Scheduled
                   ELSE UNCHANGED <<intervals, dingerIntervalId>>
                /\ Rescheduled(scheduleNextRecall(TRUE, created.settings.recallMode,
                                                  recallTimeoutId, timeouts, recallSequence))
  /\ error' = "none"
  /\ UNCHANGED <<server, today, modal, checkedWeek, prompt>>

stop ==
  /\ IF ~running
     THEN UNCHANGED <<State, localStorage, running, session, dingerIntervalId,
                      recallTimeoutId, recallSequence, intervals, timeouts>>
     ELSE LET i == sessionAt(State.sessions, session)
              ended == [State EXCEPT !.sessions[i].endedAt = [ended |-> TRUE]]
          IN /\ running' = FALSE
             /\ State' = ended
             /\ localStorage' = persistAll(ended)
             /\ intervals' = cleared(dingerIntervalId, intervals)
             /\ dingerIntervalId' = Null
             /\ timeouts' = cleared(recallTimeoutId, timeouts)
             /\ recallTimeoutId' = Null
             /\ recallSequence' = <<>>
             /\ session' = Null
  /\ error' = "none"
  /\ UNCHANGED <<server, today, nextUid, modal, checkedWeek, prompt>>

\* a dinger interval comes round: playDingerMoment()
playDingerMoment ==
  /\ intervals > 0
  /\ IF session # Null
     THEN LET i == sessionAt(State.sessions, session)
              rung == [State EXCEPT !.sessions[i].events = Append(@, [type |-> "dinger"])]
          IN /\ Len(State.sessions[i].events) < MaxEvents
             /\ State' = rung
             /\ localStorage' = persistAll(rung)
     ELSE /\ localStorage' = persistAll(State)
          /\ UNCHANGED State
  /\ error' = "none"
  /\ UNCHANGED <<server, today, nextUid, modal, checkedWeek, running, session,
                 dingerIntervalId, recallTimeoutId, recallSequence, intervals, timeouts,
                 prompt>>

\* a recall timeout fires: triggerRecallPrompt().  The timeout that fires is
\* the one the handle names, or another one still live.
triggerRecallPrompt ==
  /\ timeouts > 0
  /\ \E named \in BOOLEAN :
       /\ named => recallTimeoutId = Scheduled
       /\ ~named => timeouts > (IF recallTimeoutId = Scheduled THEN 1 ELSE 0)
       /\ recallTimeoutId' = IF named THEN Spent ELSE recallTimeoutId
  /\ timeouts' = timeouts - 1
  /\ IF ~running \/ session = Null
     THEN UNCHANGED <<prompt, recallSequence>>
     ELSE /\ prompt' = [open |-> TRUE,
                        stage |-> IF recallSequence # <<>> THEN Str(Head(recallSequence))
                                  ELSE Null,
                        shownIn |-> session]
          /\ recallSequence' = IF recallSequence # <<>> THEN Tail(recallSequence) ELSE <<>>
  /\ error' = "none"
  /\ UNCHANGED <<server, scheduler, running, session, dingerIntervalId, intervals>>

\* Save on the prompt with a text: the prompt closes, then onAnswer(text, stage)
onAnswer ==
  /\ prompt.open
  /\ prompt' = NoPrompt
  /\ IF session = Null
     THEN /\ error' = "TypeError"
          /\ UNCHANGED <<State, localStorage, recallTimeoutId, timeouts, recallSequence>>
     ELSE LET i == sessionAt(State.sessions, session)
              stage == prompt.stage
              label == Or(stage, Str(IF State.settings.recallMode = "random" THEN "random"
                                     ELSE "recall"))
              answered == [State EXCEPT
                             !.sessions[i].summaries = Append(@, [stage |-> label,
                                                                  text |-> "summary"]),
                             !.sessions[i].events = Append(@, [type |-> "recall",
                                                               stage |-> stage])]
          IN /\ Len(State.sessions[i].events) < MaxEvents
             /\ State' = answered
             /\ localStorage' = persistAll(answered)
             /\ Rescheduled(scheduleNextRecall(running, State.settings.recallMode,
                                               recallTimeoutId, timeouts, recallSequence))
             /\ error' = "none"
  /\ UNCHANGED <<server, today, nextUid, modal, checkedWeek, running, session,
                 dingerIntervalId, intervals>>

\* Close or Cancel on the prompt: the prompt closes, then onCancel()
onCancel ==
  /\ prompt.open
  /\ prompt' = NoPrompt
  /\ IF session = Null
     THEN /\ error' = "TypeError"
          /\ UNCHANGED <<State, localStorage, recallTimeoutId, timeouts, recallSequence>>
     ELSE LET i == sessionAt(State.sessions, session)
              cancelled == [State EXCEPT
                              !.sessions[i].events = Append(@, [type |-> "recall_cancel"])]
          IN /\ Len(State.sessions[i].events) < MaxEvents
             /\ State' = cancelled
             /\ localStorage' = persistAll(cancelled)
             /\ Rescheduled(scheduleNextRecall(running, State.settings.recallMode,
                                               recallTimeoutId, timeouts, recallSequence))
             /\ error' = "none"
  /\ UNCHANGED <<server, today, nextUid, modal, checkedWeek, running, session,
                 dingerIntervalId, intervals>>

NextReading ==
  \/ start
  \/ stop
  \/ playDingerMoment
  \/ triggerRecallPrompt
  \/ onAnswer
  \/ onCancel

\* the page loaded with the stored recall mode
InitSession ==
  /\ InitNotes
  /\ vector = NoVector
  /\ tasksFile = DefaultDays
  /\ \E mode \in RecallModes :
       InitScheduler(0, [DEFAULT_SETTINGS EXCEPT !.recallMode = mode])
  /\ InitReading

SpecReading == InitSession /\ [][NextReading]_vars

\* one session in triple mode that is never stopped
InitTriple ==
  /\ InitNotes
  /\ vector = NoVector
  /\ tasksFile = DefaultDays
  /\ \E dinger \in BOOLEAN :
       InitScheduler(0, [DEFAULT_SETTINGS EXCEPT !.recallMode = "triple",
                                                 !.dingerEnabled = dinger])
  /\ InitReading

NextTriple ==
  \/ start
  \/ playDingerMoment
  \/ triggerRecallPrompt
  \/ onAnswer
  \/ onCancel

SpecTriple == InitTriple /\ [][NextTriple]_vars

\* ================================================================ claims
\* a createNote request that passed requireAuth and the title check
CreateNoteWith(title, blob, encryptionMode) ==
  \E maybeId \in IdVals, uuid \in NoteIds :
    CreateNoteBody(maybeId, title, blob, encryptionMode, uuid)
resolved(encryptionMode) == resolveProfile(encryptionMode, meta)
PlaintextBlobs == {b \in BlobVals \ {NoBlob} : b.plaintext # Undefined}
size(n) == Cardinality(DOMAIN files[n])

\* C1: a createNote whose payload carries plaintext while the resolved policy
\* is client-only is answered with a PolicyMismatch error, never with success.
C1_PolicyMismatch ==
  [][\A title \in TitleVals, blob \in PlaintextBlobs, mode \in ModeVals :
       (resolved(mode) = Str("client-only") /\ Truthy(title)
        /\ CreateNoteWith(title, blob, mode))
       => (res'.status # 200 /\ res'.text = "PolicyMismatch")]_vars

\* C2: a createNote with a plaintext field under client-only, whatever else
\* the payload holds, leaves every note's number of versions as it was.
C2_NoNewVersion ==
  [][\A title \in TitleVals, blob \in PlaintextBlobs, mode \in ModeVals :
       (resolved(mode) = Str("client-only") /\ Truthy(title)
        /\ CreateNoteWith(title, blob, mode))
       => \A n \in NoteIds : Cardinality(DOMAIN files'[n]) = size(n)]_vars

\* C3: a createNote that fails on the server-assisted path (derivation,
\* compression, encryption) leaves the persisted state as it was: no
\* NoteRecord and no VersionRecord appended, old versions untouched.
C3_NoPartialWrite ==
  [][(CreateNote /\ res'.op = "createNote" /\ res'.status = 500)
       => (notesIndex' = notesIndex /\ files' = files)]_vars

\* C4: a version, once written, stays readable under its key with the
\* content it was written with through every later createNote.
C4_VersionImmutable ==
  [][CreateNote =>
       \A n \in NoteIds : \A t \in DOMAIN files[n] :
         t \in DOMAIN files'[n] /\ files'[n][t] = files[n][t]]_vars

\* C5: every createNote that carries a payload and succeeds adds exactly one
\* version to that note, also within one clock millisecond.
C5_ExactlyOneVersion ==
  [][\A title \in TitleVals, blob \in BlobVals \ {NoBlob}, mode \in ModeVals :
       \A maybeId \in IdVals, uuid \in NoteIds :
         (Truthy(title) /\ CreateNoteBody(maybeId, title, blob, mode, uuid)
          /\ res'.status = 200)
         => Cardinality(DOMAIN files'[Or(maybeId, Str(uuid)).val])
              = size(Or(maybeId, Str(uuid)).val) + 1]_vars

\* C6: with no hash stored, a setup-pin call with a secret of 6 or more
\* characters succeeds and stores a bcrypt hash of it; a call made when a
\* hash is stored, with no currentPin or one that does not match it, is
\* rejected and leaves meta.json as it was; a secret shorter than 6 is
\* always rejected and leaves meta.json as it was.  The stored value a call
\* meets is the one meta.json holds when its handler starts.
Finishes(r) == pinReqs[r].pc # "done" /\ pinReqs'[r].pc = "done"
C6_SetupPin ==
  [][\A r \in Reqs :
       /\ (pinReqs[r].pc = "idle" /\ pinReqs'[r].pc # "idle" /\ Len(pinReqs'[r].pin) >= 6)
            => pinReqs'[r].meta = meta
       /\ Finishes(r) =>
            LET q == pinReqs'[r]
            IN /\ Len(q.pin) < 6 => (q.res.status = 400 /\ meta' = meta)
               /\ (Len(q.pin) >= 6 /\ q.meta.pinHash = Null)
                    => /\ q.res.status = 200
                       /\ \E salt \in Salts :
                            meta' = [q.meta EXCEPT !.pinHash = [bcrypt |-> q.pin, salt |-> salt]]
               /\ (Len(q.pin) >= 6 /\ q.meta.pinHash # Null
                   /\ q.meta.pinHash.bcrypt # q.currentPin)
                    => (q.res.status \in {400, 403} /\ meta' = meta)]_vars
\* a PIN was created and a later change with a wrong currentPin was refused
C6_Witness ==
  \E r1, r2 \in Reqs :
    /\ pinReqs[r1].pc = "done" /\ pinReqs[r1].res.text = "PIN created"
    /\ pinReqs[r2].pc = "done" /\ pinReqs[r2].res.status = 403
    /\ pinReqs[r2].meta.pinHash.bcrypt # pinReqs[r2].currentPin
    /\ meta.pinHash # Null

\* C7: a setup-pin request's check of the stored hash and its write are one
\* step relative to the other requests: no request overwrites a hash it did
\* not observe, and at most one request without currentPin sets the hash.
C7_Serialized ==
  [][/\ \A r \in Reqs :
          (Finishes(r) /\ pinReqs'[r].res.status = 200)
            => meta.pinHash = pinReqs[r].meta.pinHash
     /\ Cardinality({r \in Reqs : /\ pinReqs'[r].res.text = "PIN created"
                                   /\ pinReqs'[r].currentPin = <<>>}) <= 1]_vars

\* C8: the index holds at most one NoteRecord per identifier.
C8_UniqueIds ==
  \A i, j \in 1..Len(notesIndex) : i # j => notesIndex[i].id # notesIndex[j].id

\* C9: no metadata patch changes the id of an existing NoteRecord.
C9_IdImmutable ==
  [][PatchNote =>
       /\ Len(notesIndex') = Len(notesIndex)
       /\ \A i \in 1..Len(notesIndex) : notesIndex'[i].id = notesIndex[i].id]_vars

\* C10: listVersions returns the versions newest first: strictly decreasing
\* in creation timestamp.
C10_NewestFirst ==
  (res.op = "listVersions" /\ res.status = 200) =>
    \A i, j \in 1..Len(res.body.versions) :
      i < j => res.body.versions[i].ts > res.body.versions[j].ts

\* the record a version file holds
stored(n, t) == JSONparse(gunzipBufferSync(files[n][t]))
has(id) == \E i \in 1..Len(notesIndex) : notesIndex[i].id = id
Policies == {Str("client-only"), Str("server-assisted"), Str("hybrid")}

\* C11: deleteNote(noteId) leaves no NoteRecord with that id in the index
\* and no version of that note on disk, and leaves the NoteRecords and the
\* versions of every other note as they were.
C11_DeleteCascades ==
  [][(DeleteNote /\ res'.op = "deleteNote") =>
       LET nid == res'.params.id
       IN /\ \A i \in 1..Len(notesIndex') : notesIndex'[i].id # nid
          /\ \A n \in NoteIds \cap {nid} : n \notin verDirs' /\ files'[n] = <<>>
          /\ \A n \in NoteIds \ {nid} :
               files'[n] = files[n] /\ (n \in verDirs' <=> n \in verDirs)
          /\ SelectSeq(notesIndex', LAMBDA e : e.id # nid)
               = SelectSeq(notesIndex, LAMBDA e : e.id # nid)]_vars

\* C12: every note id that has stored versions has a NoteRecord in the index.
C12_VersionsHaveParent ==
  \A n \in NoteIds : (n \in verDirs /\ files[n] # <<>>) => has(n)

\* C13: a version written from client ciphertext and nonce is stored with
\* exactly that ciphertext and nonce, and readVersion returns the ciphertext,
\* nonce and metadata the file holds when it is read, also when the file was
\* altered at rest: it never decrypts or repairs them.
ClientBlobs == {b \in BlobVals \ {NoBlob} : Truthy(b.ciphertext) /\ Truthy(b.iv)}
C14_ChecksumOfStored ==
  \A n \in NoteIds : \A t \in DOMAIN files[n] :
    /\ stored(n, t).meta.checksum.sha256 = stored(n, t).ciphertext
    /\ sha256Hex(stored(n, t).ciphertext) = stored(n, t).meta.checksum
    /\ \A x \in {Str("c1"), Altered} \ {stored(n, t).ciphertext} :
         sha256Hex(x) # stored(n, t).meta.checksum
\* a client-encrypted and a server-encrypted version are both on disk
C14_Witness ==
  \E n, m \in NoteIds : \E t \in DOMAIN files[n], u \in DOMAIN files[m] :
    /\ stored(n, t).ciphertext = Str("c1")
    /\ "alg" \in DOMAIN stored(m, u).ciphertext

\* C15: every stored VersionRecord carries one of the three policy tags, and
\* one written from client-supplied ciphertext carries client-only or hybrid.
C15_PolicyTag ==
  \A n \in NoteIds : \A t \in DOMAIN files[n] :
    /\ stored(n, t).meta.mode \in Policies
    /\ "alg" \notin DOMAIN stored(n, t).ciphertext
         => stored(n, t).meta.mode \in {Str("client-only"), Str("hybrid")}

\* C16: when the request declares no policy, the policy recorded for the new
\* note and its version is the default meta.json holds; when it declares
\* one, the declared policy is recorded.
declaredOrDefault(mode) == IF mode = Undefined THEN meta.encryptionProfile ELSE mode
wrote(blob, profile) ==
  /\ blob # NoBlob
  /\ \/ Truthy(blob.plaintext) /\ profile = Str("server-assisted")
     \/ Truthy(blob.ciphertext) /\ Truthy(blob.iv)
C16_ResolvedPolicy ==
  [][(res'.op = "createNote" /\ res'.status = 200) =>
       \A blob \in BlobVals, mode \in ModeVals :
         \A maybeId \in {Undefined, Str(res'.body.note.id)} :
           CreateNoteBody(maybeId, Str(res'.body.note.title), blob, mode, res'.body.note.id)
           => /\ logged'[Len(logged')].payload.profile = declaredOrDefault(mode)
              /\ wrote(blob, declaredOrDefault(mode)) =>
                   JSONparse(gunzipBufferSync(files'[res'.body.note.id][clock])).meta.mode
                     = declaredOrDefault(mode)]_vars
\* under a stored default of server-assisted a note was created with that
\* policy and its version is tagged with it
C16_Witness ==
  /\ meta.encryptionProfile = Str("server-assisted")
  /\ res.op = "createNote" /\ res.status = 200
  /\ logged # <<>> /\ logged[Len(logged)].action = "notes.create"
  /\ logged[Len(logged)].payload.profile = Str("server-assisted")
  /\ \E t \in DOMAIN files[res.body.note.id] :
       stored(res.body.note.id, t).meta.mode = Str("server-assisted")

\* C17, as stated: a createNote that lacks a title or lacks a payload is
\* rejected and leaves the index and the version files as they were.
C17_InputInvalid ==
  [][/\ \A title \in TitleVals :
          (title = Undefined /\ CreateNoteTitled(title))
          => (res'.status = 400 /\ UNCHANGED store)
     /\ \A title \in TitleVals \ {Undefined}, mode \in ModeVals :
          CreateNoteWith(title, NoBlob, mode)
          => (res'.status = 400 /\ UNCHANGED store)]_vars
\* C17, amended: a createNote that lacks a title is rejected with 400 before
\* anything is written or logged; a createNote with a title and no payload
\* succeeds, adds one NoteRecord and leaves the version files as they were.
C17_TitleRequired ==
  [][/\ \A title \in TitleVals :
          (title = Undefined /\ CreateNoteTitled(title))
          => (res'.status = 400 /\ logged' = <<>> /\ UNCHANGED store)
     /\ (res'.op = "createNote" /\ res'.status = 200) =>
          \A mode \in ModeVals, maybeId \in {Undefined, Str(res'.body.note.id)} :
            CreateNoteBody(maybeId, Str(res'.body.note.title), NoBlob, mode,
                           res'.body.note.id)
            => /\ Len(notesIndex') = Len(notesIndex) + 1
               /\ notesIndex'[1] = res'.body.note
               /\ files' = files /\ verDirs' = verDirs]_vars
\* a request without title was refused while a note with a version exists
C17_Witness ==
  /\ res = Reply("createNote", 400, "title required", NoBody)
  /\ notesIndex # <<>>
  /\ \E n \in NoteIds : files[n] # <<>>

\* C18: a createNote step emits the audit event notes.create exactly when it
\* appends a version, and the event carries the note id, the resolved policy
\* and the version's checksum, and neither plaintext nor key.
C18_AuditOnAppend ==
  [][CreateNote =>
       LET created == {i \in 1..Len(logged') : logged'[i].action = "notes.create"}
       IN /\ files' # files => created # {}
          /\ \A i \in created :
               LET e == logged'[i].payload
               IN /\ clock \in DOMAIN files'[e.id]
                  /\ "checksum" \in DOMAIN e
                  /\ e.checksum = JSONparse(gunzipBufferSync(files'[e.id][clock])).meta.checksum
                  /\ e.profile = JSONparse(gunzipBufferSync(files'[e.id][clock])).meta.mode
                  /\ DOMAIN e \cap {"plaintext", "key"} = {}]_vars

\* C19: createNote, listVersions, readVersion, patch and deleteNote sent
\* without a valid bearer token are rejected by requireAuth and change
\* neither the index, the version files nor meta.json.
NoteOperationAs(auth) ==
  \/ CreateNoteAs(auth)
  \/ ListVersionsAs(auth)
  \/ ReadVersionAs(auth)
  \/ PatchNoteAs(auth)
  \/ DeleteNoteAs(auth)
C19_AuthGate ==
  [][\A auth \in Auths \ {"valid"} :
       NoteOperationAs(auth)
       => /\ res'.op = "requireAuth" /\ res'.status \in {400, 401}
          /\ UNCHANGED <<store, meta>>]_vars
\* a request was turned away while a note and a version of it are stored
C19_Witness ==
  /\ res.op = "requireAuth" /\ res.status = 401 /\ res.text = "invalid token"
  /\ notesIndex # <<>>
  /\ \E n \in NoteIds : files[n] # <<>>

\* C20: listVersions and readVersion never answer with success when a
\* version file they read cannot be decoded.
C20_CorruptNotSuccess ==
  [][/\ (ListVersions /\ res'.op = "listVersions" /\ res'.status = 200)
          => \A t \in DOMAIN files[res'.params.id] : ~gunzipThrows(files[res'.params.id][t])
     /\ (ReadVersion /\ res'.op = "readVersion" /\ res'.status = 200)
          => ~gunzipThrows(files[res'.params.id][Number(split(res'.params.file))])]_vars

ServerWritten(n, t) ==
  /\ ~gunzipThrows(files[n][t])
  /\ "key" \in DOMAIN stored(n, t).ciphertext
C22_SameKeyAfterRestart ==
  \A n \in NoteIds : \A t \in DOMAIN files[n] :
    ServerWritten(n, t) =>
      aesGcmDecrypt(scryptSync(JWT_SECRET, "server-key-salt-v3"),
                    stored(n, t).ciphertext, stored(n, t).iv) # Thrown

\* C23: on the server-assisted write path the plaintext is compressed first
\* and the compressed bytes are encrypted under the server master key; the
\* record is written only when that succeeded.  The stored ciphertext is a
\* cipher output that decrypts under the master key to the gzip of the
\* plaintext: it is neither a gzip stream nor the plaintext, and a failed
\* encryption writes nothing.
C23_CompressThenEncrypt ==
  [][/\ (res'.op = "createNote" /\ res'.status = 200) =>
          \A blob \in PlaintextBlobs, mode \in ModeVals :
            \A maybeId \in {Undefined, Str(res'.body.note.id)} :
              (/\ CreateNoteBody(maybeId, Str(res'.body.note.title), blob, mode,
                                 res'.body.note.id)
               /\ Truthy(blob.plaintext) /\ resolved(mode) = Str("server-assisted"))
              => LET c == JSONparse(gunzipBufferSync(files'[res'.body.note.id][clock]))
                     serverKey == scryptSync(JWT_SECRET, "server-key-salt-v3")
                     gz == aesGcmDecrypt(serverKey, c.ciphertext, c.iv)
                 IN /\ "key" \in DOMAIN c.ciphertext
                    /\ gz # Thrown
                    /\ ~gunzipThrows(gz)
                    /\ gunzipBufferSync(gz) = BufferFrom(blob.plaintext)
     /\ (res'.op = "createNote" /\ res'.status = 500) => UNCHANGED files]_vars
\* a server-assisted create answered 200 and its version holds the encrypted
\* gzip of "hello"
C23_Witness ==
  /\ res.op = "createNote" /\ res.status = 200
  /\ clock \in DOMAIN files[res.body.note.id]
  /\ ServerWritten(res.body.note.id, clock)
  /\ stored(res.body.note.id, clock).ciphertext.enc = gzipBufferSync(BufferFrom(Str("hello")))

\* C30: the reorder route stores a permutation of the day's existing tasks:
\* whatever the order array, every task of that day is in the stored list
\* exactly as often as before, and the other day's list is unchanged.
occurrences(list, t) == Cardinality({i \in 1..Len(list) : list[i] = t})
C30_ReorderPermutes ==
  [][(res'.op = "reorderTasks" /\ res'.status = 200) =>
       \A dayVal \in DayVals, order \in OrderVals \ {Undefined} :
         ReorderWith(dayVal, order) =>
           LET day == Or(dayVal, Str("A")).val
           IN /\ \A i \in 1..Len(tasksFile[day]) :
                   occurrences(tasksFile'[day], tasksFile[day][i]) = 1
              /\ Len(tasksFile'[day]) = Len(tasksFile[day])
              /\ \A d \in Days \ {day} : tasksFile'[d] = tasksFile[d]]_vars

\* C28: after any sequence of add, duplicate, move, edit-save, delete,
\* apply-template and undo, also undo while the edit dialog is open, every
\* task id occurs in at most one day list of STATE.tasks and at most once in
\* that list.
C28_UniqueTaskIds ==
  \A n \in 1..MaxUid :
    Cardinality({<<k, i>> \in (DOMAIN State.tasks) \X (1..MaxTasks) :
                   i <= Len(State.tasks[k]) /\ State.tasks[k][i].id = uid("t", n)}) <= 1

\* C29: every task-changing operation (add, delete, duplicate, move,
\* edit-save, apply template) leaves on top of the undo stack the snapshot of
\* STATE.tasks as it was before the operation, and popUndo sets STATE.tasks
\* to exactly the snapshot on top and persists it, so that popUndo right
\* after an operation restores the value before it; popUndo on an empty
\* stack changes nothing; the stack never holds more than UNDO_LIMIT
\* snapshots.
top(stack) == stack[Len(stack)]
C24_ResetOnlyOnNewWeek ==
  [][(State.settings.autoReset /\ weeklyRollover
        /\ (State'.archives # State.archives \/ (State.tasks # <<>> /\ State'.tasks = <<>>)))
       => getISOWeekKey(today) # checkedWeek]_vars

\* C25: a recall summary or recall-cancel event is recorded only in the
\* session during which its prompt was shown: answering or cancelling a
\* prompt raises no error and, when the session that showed it is no longer
\* the manager's session, records nothing in any session and schedules no
\* recall.
C25_RecallInOwnSession ==
  [][(onAnswer \/ onCancel) =>
       /\ error' = "none"
       /\ \A i \in 1..Len(State.sessions) :
            State'.sessions[i] # State.sessions[i] => State.sessions[i].id = prompt.shownIn
       /\ session # prompt.shownIn =>
            /\ timeouts' = timeouts
            /\ recallTimeoutId' = recallTimeoutId]_vars

\* C26: a session in recall mode 'triple' shows at most the three prompts
\* immediate, mid, final, in that order, and once the third is answered or
\* cancelled no further recall is scheduled for it.
recalls(s) == SelectSeq(s.events, LAMBDA e : e.type \in {"recall", "recall_cancel"})
staged(s) == SelectSeq(s.events, LAMBDA e : e.type = "recall")
StageOrder == <<Str("immediate"), Str("mid"), Str("final")>>
C26_TripleThenSilent ==
  \A i \in 1..Len(State.sessions) :
    LET s == State.sessions[i]
    IN s.recallMode = "triple" =>
         /\ Len(recalls(s)) + (IF prompt.open /\ prompt.shownIn = s.id THEN 1 ELSE 0) <= 3
         /\ \A k \in 1..Len(staged(s)) : \A j \in 1..(k - 1) :
              \E a, b \in 1..3 : /\ a < b
                                 /\ staged(s)[j].stage = StageOrder[a]
                                 /\ staged(s)[k].stage = StageOrder[b]
         /\ (Len(recalls(s)) = 3 /\ session = s.id) => timeouts = 0

\* C27: at most one reading session is active.  start while a session runs
\* creates no session record and starts no timer, stop while none runs
\* changes nothing, and while no session runs no dinger interval and no
\* recall timeout is scheduled.
Unended == {i \in 1..Len(State.sessions) : State.sessions[i].endedAt = Null}
C27_OneSession ==
  [][/\ (running /\ start) =>
          UNCHANGED <<State, localStorage, session, intervals, timeouts,
                      dingerIntervalId, recallTimeoutId>>
     /\ (~running /\ stop) =>
          UNCHANGED <<State, localStorage, running, session, intervals, timeouts,
                      dingerIntervalId, recallTimeoutId, recallSequence, prompt>>
     /\ ~running' => intervals' = 0 /\ timeouts' = 0
     /\ running' => intervals' <= 1 /\ timeouts' <= 1
     /\ Cardinality(Unended') <= 1]_vars
\* a session that had its dinger and a recall prompt was stopped, and no
\* timer is left
C27_Witness ==
  /\ ~running
  /\ State.sessions # <<>>
  /\ State.sessions[1].endedAt # Null
  /\ Len(State.sessions[1].events) >= 2
  /\ dingerIntervalId = Null /\ recallTimeoutId = Null
  /\ intervals = 0 /\ timeouts = 0
====
